---- MODULE Spec2Model ----
(***************************************************************************)
(* svg-server (src/main.rs): an actix-web server with two routes.          *)
(*   GET /        home_redirect: temporary redirect to the --index route   *)
(*   GET /{page}  render_svg: read <svg folder>/<page>.svg, rewrite the    *)
(*                root <svg> tag with svg_size_full_width, render the      *)
(*                "layout" template.                                       *)
(* Text is modelled as sequences of one-character strings, so that find,   *)
(* the two regular expressions and str::replace are computed character by  *)
(* character as the Rust code computes them.                               *)
(***************************************************************************)
EXTENDS Naturals, Sequences, FiniteSets, TLC

(***************************************************************************)
(* Bounds                                                                  *)
(***************************************************************************)
NReqs == 2        \* request slots (requests in flight at once)
MaxSegLen == 2    \* longest URL segment of GET /{page}
MaxPieces == 3    \* longest list of pieces inside a generated <svg ...> tag

(***************************************************************************)
(* Characters and text                                                     *)
(***************************************************************************)
QUOTE == "\""

IsWs(c) == c \in {" ", "\t", "\n"}

Sub(s, a, b) == IF a > b THEN << >> ELSE SubSeq(s, a, b)

RECURSIVE Flatten(_)
Flatten(ss) == IF ss = << >> THEN << >> ELSE Head(ss) \o Flatten(Tail(ss))

\* s[i..] starts with p
StartsWithAt(s, i, p) ==
    /\ i + Len(p) - 1 <= Len(s)
    /\ \A k \in 1..Len(p) : s[i + k - 1] = p[k]

\* str::find(pat) on s[from..]: index of the first match, 0 for None
RECURSIVE FindFrom(_, _, _)
FindFrom(s, p, from) ==
    IF from + Len(p) - 1 > Len(s) THEN 0
    ELSE IF StartsWithAt(s, from, p) THEN from
    ELSE FindFrom(s, p, from + 1)

Contains(s, p) == FindFrom(s, p, 1) # 0

\* first index >= i that is not whitespace (Len(s)+1 when there is none)
RECURSIVE SkipWs(_, _)
SkipWs(s, i) ==
    IF i <= Len(s) /\ IsWs(s[i]) THEN SkipWs(s, i + 1) ELSE i

\* str::replace(from, to): every non-overlapping match, left to right
RECURSIVE StrReplaceFrom(_, _, _, _)
StrReplaceFrom(s, from, to, i) ==
    IF i > Len(s) THEN << >>
    ELSE IF StartsWithAt(s, i, from)
         THEN to \o StrReplaceFrom(s, from, to, i + Len(from))
         ELSE << s[i] >> \o StrReplaceFrom(s, from, to, i + 1)

\* only the first match (str::replacen(from, to, 1))
StrReplaceFirst(s, from, to) ==
    LET i == FindFrom(s, from, 1) IN
    IF i = 0 THEN s
    ELSE Sub(s, 1, i - 1) \o to \o Sub(s, i + Len(from), Len(s))

StrReplace(s, from, to) == StrReplaceFrom(s, from, to, 1)

(***************************************************************************)
(* The regular expressions  name\s*=\s*"[^"]*"                             *)
(***************************************************************************)
HEIGHT == << "h", "e", "i", "g", "h", "t" >>
WIDTH == << "w", "i", "d", "t", "h" >>
WIDTH_FULL == WIDTH \o << "=", QUOTE, "1", "0", "0", "%", QUOTE >>
SVG_OPEN == << "<", "s", "v", "g" >>

\* a match that forgets the quoted value: name\s*=\s*"
AttrMatchEndNoValue(s, i, name) ==
    IF ~StartsWithAt(s, i, name) THEN 0
    ELSE LET j == SkipWs(s, i + Len(name)) IN
         IF j > Len(s) \/ s[j] # "=" THEN 0
         ELSE LET k == SkipWs(s, j + 1) IN
              IF k > Len(s) \/ s[k] # QUOTE THEN 0
              ELSE k + 1

\* the index just past the match of name\s*=\s*"[^"]*" starting at i, 0 when
\* the expression does not match at i
AttrMatchEnd(s, i, name) ==
    IF ~StartsWithAt(s, i, name) THEN 0
    ELSE LET j == SkipWs(s, i + Len(name)) IN
         IF j > Len(s) \/ s[j] # "=" THEN 0
         ELSE LET k == SkipWs(s, j + 1) IN
              IF k > Len(s) \/ s[k] # QUOTE THEN 0
              ELSE LET q == FindFrom(s, << QUOTE >>, k + 1) IN
                   IF q = 0 THEN 0 ELSE q + 1

\* Regex::replace_all: leftmost non-overlapping matches, left to right
RECURSIVE ReReplaceAllFrom(_, _, _, _)
ReReplaceAllFrom(s, name, rep, i) ==
    IF i > Len(s) THEN << >>
    ELSE LET e == AttrMatchEnd(s, i, name) IN
         IF e # 0 THEN rep \o ReReplaceAllFrom(s, name, rep, e)
         ELSE << s[i] >> \o ReReplaceAllFrom(s, name, rep, i + 1)

HEIGHT_RE_replace_all(s, rep) == ReReplaceAllFrom(s, HEIGHT, rep, 1)
WIDTH_RE_replace_all(s, rep) == ReReplaceAllFrom(s, WIDTH, rep, 1)

ReIsMatch(s, name) == \E i \in 1..Len(s) : AttrMatchEnd(s, i, name) # 0

(***************************************************************************)
(* svg_size_full_width                                                      *)
(***************************************************************************)
NO_START == << "No SVG start found" >>
NO_END == << "No SVG end found" >>

Ok(v) == [ok |-> TRUE, val |-> v]
Err(e) == [ok |-> FALSE, val |-> e]

\* svg_start and the tag span svg_content[svg_start..svg_start+svg_end+1]
SvgStart(svg_content) == FindFrom(svg_content, SVG_OPEN, 1)
SvgEnd(svg_content) == FindFrom(svg_content, << ">" >>, SvgStart(svg_content))
SvgTagLine(svg_content) ==
    Sub(svg_content, SvgStart(svg_content), SvgEnd(svg_content))

\* a rewrite that adds width="100%" when the tag has no width to replace
NewSvgTagLineSynth(svg_tag_line) ==
    LET h == HEIGHT_RE_replace_all(svg_tag_line, << >>) IN
    IF ReIsMatch(h, WIDTH) THEN WIDTH_RE_replace_all(h, WIDTH_FULL)
    ELSE Sub(h, 1, Len(h) - 1) \o << " " >> \o WIDTH_FULL \o << ">" >>

NewSvgTagLine(svg_tag_line) ==
    WIDTH_RE_replace_all(HEIGHT_RE_replace_all(svg_tag_line, << >>), WIDTH_FULL)

svg_size_full_width(svg_content) ==
    IF SvgStart(svg_content) = 0 THEN Err(NO_START)
    ELSE IF SvgEnd(svg_content) = 0 THEN Err(NO_END)
    ELSE Ok(StrReplace(svg_content, SvgTagLine(svg_content),
                       NewSvgTagLine(SvgTagLine(svg_content))))

(***************************************************************************)
(* Reading the root tag back as a list of attributes (what a lenient tag   *)
(* reader sees): name = "value" pairs outside quoted values, up to the     *)
(* first '>' that is not inside a quoted value.                            *)
(***************************************************************************)
IsNameChar(c) == ~IsWs(c) /\ c \notin {"=", QUOTE, ">"}

RECURSIVE NameEnd(_, _)
NameEnd(s, i) ==
    IF i <= Len(s) /\ IsNameChar(s[i]) THEN NameEnd(s, i + 1) ELSE i

RECURSIVE ParseAttrs(_, _)
ParseAttrs(s, i) ==
    IF i > Len(s) \/ s[i] = ">" THEN << >>
    ELSE IF IsWs(s[i]) \/ s[i] = "=" THEN ParseAttrs(s, i + 1)
    ELSE IF s[i] = QUOTE
         THEN LET q == FindFrom(s, << QUOTE >>, i + 1) IN
              IF q = 0 THEN << >> ELSE ParseAttrs(s, q + 1)
    ELSE LET e == NameEnd(s, i)
             j == SkipWs(s, e) IN
         IF j > Len(s) \/ s[j] # "=" THEN ParseAttrs(s, j)
         ELSE LET k == SkipWs(s, j + 1) IN
              IF k > Len(s) \/ s[k] # QUOTE THEN ParseAttrs(s, k)
              ELSE LET q == FindFrom(s, << QUOTE >>, k + 1) IN
                   IF q = 0 THEN << >>
                   ELSE << [name |-> Sub(s, i, e - 1),
                            value |-> Sub(s, k + 1, q - 1)] >>
                        \o ParseAttrs(s, q + 1)

RootAttrs(doc) ==
    IF SvgStart(doc) = 0 THEN << >>
    ELSE ParseAttrs(doc, SvgStart(doc) + Len(SVG_OPEN))

AttrValues(doc, name) ==
    LET as == RootAttrs(doc) IN
    { as[i].value : i \in { n \in 1..Len(as) : as[n].name = name } }

AttrCount(doc, name) ==
    LET as == RootAttrs(doc) IN
    Cardinality({ n \in 1..Len(as) : as[n].name = name })

HasAttr(doc, name) == AttrCount(doc, name) > 0

(***************************************************************************)
(* Documents the rewriter is applied to: <svg, a list of pieces, and one   *)
(* of a few surroundings.                                                  *)
(***************************************************************************)
Attr(name, eq, value) == << " " >> \o name \o eq \o << QUOTE >> \o value \o << QUOTE >>

Pieces ==
    << Attr(HEIGHT, << "=" >>, << "1" >>),                     \* 1   height="1"
       Attr(WIDTH, << "=" >>, << "2" >>),                      \* 2   width="2"
       Attr(WIDTH, << " ", "=", " " >>, << "3" >>),            \* 3   width = "3"
       Attr(<< "a" >>, << "=" >>, << ">" >>),                  \* 4   a=">"
       << " ", "h", "e" >>,                                    \* 5   he
       HEIGHT \o << "=", QUOTE, "4", QUOTE >>,                 \* 6  height="4"
       << "i", "g", "h", "t", "=", QUOTE, "5", QUOTE >>,       \* 7  ight="5"
       << " ", "w", "i" >>,                                    \* 8   wi
       << "d", "t", "h", "=", QUOTE, "6", QUOTE >>,            \* 9  dth="6"
       Attr(<< "a" >>, << "=" >>, << "w", "i" >> \o HEIGHT \o << "=" >>),
                                                               \* 10  a="wiheight="
       Attr(<< "b" >>, << "=" >>, << "d", "t", "h", "=" >>) >> \* 11  b="dth="

\* pieces that are whitespace-separated name="value" attributes
WellFormedPieces == {1, 2, 3, 4, 10, 11}

RECURSIVE SeqsUpTo(_, _)
SeqsUpTo(S, n) ==
    IF n = 0 THEN { << >> }
    ELSE LET shorter == SeqsUpTo(S, n - 1) IN
         shorter \cup { Append(t, x) : t \in shorter, x \in S }

PieceLists == SeqsUpTo(1..Len(Pieces), MaxPieces)

Shapes == {"plain", "prolog", "nested", "noend", "nostart"}

SVG_CLOSE == << "<", "/", "s", "v", "g", ">" >>
OTHER_SVG == SVG_OPEN \o Attr(HEIGHT, << "=" >>, << "9" >>) \o << ">" >>

TagOf(ps) == SVG_OPEN \o Flatten([n \in 1..Len(ps) |-> Pieces[ps[n]]])

DocOf(ps, shape) ==
    CASE shape = "plain"   -> TagOf(ps) \o << ">", "x" >> \o SVG_CLOSE
      [] shape = "prolog"  -> << "<", "?", ">" >> \o TagOf(ps) \o << ">" >> \o SVG_CLOSE
      [] shape = "nested"  -> TagOf(ps) \o << ">" >> \o OTHER_SVG \o SVG_CLOSE
                              \o TagOf(ps) \o << ">" >> \o SVG_CLOSE \o SVG_CLOSE
      [] shape = "noend"   -> << "x", ">" >> \o TagOf(ps)
      [] shape = "nostart" -> << "<", "g" >> \o Flatten([n \in 1..Len(ps) |-> Pieces[ps[n]]])
                              \o << ">" >>

(***************************************************************************)
(* State                                                                    *)
(***************************************************************************)
VARIABLES
    svg_folder,     \* web::Data<SvgPath>: the directory given on the command line
    redirect_to,    \* web::Data<RedirectIndexTo>: the --index option
    hb,             \* web::Data<Handlebars>: the names of the registered templates
    files,          \* the file system: path -> text, or INVALID_UTF8
    req,            \* per request slot: the handler's position and locals
    rw              \* svg_size_full_width applied to a generated document

vars == << svg_folder, redirect_to, hb, files, req, rw >>

Reqs == 1..NReqs

(***************************************************************************)
(* render_svg, lines 80-82: the page name and the path of the file         *)
(***************************************************************************)
SegChars == {"A", ":"}
Segments == SeqsUpTo(SegChars, MaxSegLen) \ { << >> }

ToLowerChar(c) == IF c = "A" THEN "a" ELSE c

to_lowercase(s) == [n \in 1..Len(s) |-> ToLowerChar(s[n])]

ReplaceChar(s, from, to) == [n \in 1..Len(s) |-> IF s[n] = from THEN to ELSE s[n]]

PageName(segment) == ReplaceChar(to_lowercase(segment), ":", "/")

DOT_SVG == << ".", "s", "v", "g" >>

\* PathBuf::join always appends under the base, also for an absolute path
PathJoinUnder(base, path) ==
    IF base # << >> /\ base[Len(base)] = "/" THEN base \o path
    ELSE base \o << "/" >> \o path

\* PathBuf::join: an absolute path replaces the base
PathJoin(base, path) ==
    IF path # << >> /\ path[1] = "/" THEN path
    ELSE IF base # << >> /\ base[Len(base)] = "/" THEN base \o path
    ELSE base \o << "/" >> \o path

FullSvgPath(folder, page) == PathJoin(folder, page \o DOT_SVG)

(***************************************************************************)
(* The file system and std::fs::read_to_string                             *)
(***************************************************************************)
INVALID_UTF8 == << "\\xff" >>
IO_NOT_FOUND == << "No such file or directory (os error 2)" >>
IO_INVALID_DATA == << "stream did not contain valid UTF-8" >>

read_to_string(fs, path) ==
    IF path \notin DOMAIN fs THEN Err(IO_NOT_FOUND)
    ELSE IF fs[path] = INVALID_UTF8 THEN Err(IO_INVALID_DATA)
    ELSE Ok(fs[path])

(***************************************************************************)
(* Handlebars::render("layout", {title, svg_content}).  The engine is the  *)
(* set of registered template names; rendering a name that is not          *)
(* registered is the render error.  templates/layout.hbs is read as the    *)
(* template contract states it: a full HTML page holding title and         *)
(* svg_content.                                                            *)
(***************************************************************************)
LAYOUT == "layout"
RENDER_ERROR == << "Error rendering \"layout\": template not found" >>

hb_render(engine, name, title, svg_content) ==
    IF name \notin engine THEN Err(RENDER_ERROR)
    ELSE Ok(<< "<html><title>" >> \o title \o << "</title><body>" >>
            \o svg_content \o << "</body></html>" >>)

(***************************************************************************)
(* Responses                                                               *)
(***************************************************************************)
NO_RESPONSE == [status |-> 0, location |-> << >>, content_type |-> "", body |-> << >>]

FAILED_TO_LOAD == << "Failed to load SVG" >>
TEMPLATE_ERROR == << "Template rendering error" >>

InternalServerError(body) ==
    [status |-> 500, location |-> << >>, content_type |-> "", body |-> body]

HttpOk(body) ==
    [status |-> 200, location |-> << >>,
     content_type |-> "text/html; charset=utf-8", body |-> body]

TemporaryRedirect(to) ==
    [status |-> 307, location |-> to, content_type |-> "", body |-> << >>]

IDLE == [pc |-> "idle", route |-> "", segment |-> << >>, page |-> << >>,
         full_svg_path |-> << >>, content |-> << >>, svg_content |-> << >>,
         ops |-> << >>, stdout |-> << >>, stderr |-> << >>, resp |-> NO_RESPONSE]

(***************************************************************************)
(* Startup (main)                                                          *)
(***************************************************************************)
FOLDER == << "r" >>
HOME == << "/", "h", "o", "m", "e" >>

GOOD_SVG == DocOf(<< 1, 2 >>, "plain")
OUTSIDE_SVG == DocOf(<< 2 >>, "plain")

Files ==
    ( << "r", "/", "a", ".", "s", "v", "g" >> :> GOOD_SVG )
 @@ ( << "r", "/", "a", "a", ".", "s", "v", "g" >> :> DocOf(<< 1 >>, "nostart") )
 @@ ( << "r", "/", "a", "/", ".", "s", "v", "g" >> :> INVALID_UTF8 )
 @@ ( << "/", "a", ".", "s", "v", "g" >> :> OUTSIDE_SVG )
 @@ ( << "/", ".", "s", "v", "g" >> :> DocOf(<< 2 >>, "noend") )

RW_IDLE == [pc |-> "off", pieces |-> << >>, shape |-> "plain", doc |-> << >>,
            out1 |-> Err(<< >>), out2 |-> Err(<< >>)]

Init ==
    /\ svg_folder = FOLDER
    /\ redirect_to \in {HOME, << "/", "a" >>}
    /\ hb \in {{LAYOUT}, {}}
    /\ files = Files
    /\ req = [r \in Reqs |-> IDLE]
    /\ rw = RW_IDLE

(***************************************************************************)
(* home_redirect                                                           *)
(***************************************************************************)
HomeRedirectFixed(r) ==
    /\ req[r].pc = "idle"
    /\ req' = [req EXCEPT ![r] =
                 [@ EXCEPT !.pc = "done", !.route = "root",
                           !.stdout = << << "Redirecting / to " >> \o redirect_to >>,
                           !.ops = << "respond" >>,
                           !.resp = TemporaryRedirect(HOME)]]
    /\ UNCHANGED << svg_folder, redirect_to, hb, files, rw >>

HomeRedirect(r) ==
    /\ req[r].pc = "idle"
    /\ req' = [req EXCEPT ![r] =
                 [@ EXCEPT !.pc = "done", !.route = "root",
                           !.stdout = << << "Redirecting / to " >> \o redirect_to >>,
                           !.ops = << "respond" >>,
                           !.resp = TemporaryRedirect(redirect_to)]]
    /\ UNCHANGED << svg_folder, redirect_to, hb, files, rw >>

(***************************************************************************)
(* render_svg, in the steps other requests can interleave with             *)
(***************************************************************************)
\* lines 80-83
Begin(r, segment) ==
    /\ req[r].pc = "idle"
    /\ LET page == PageName(segment)
           path == FullSvgPath(svg_folder, page) IN
       req' = [req EXCEPT ![r] =
                 [@ EXCEPT !.pc = "read", !.route = "page", !.segment = segment,
                           !.page = page, !.full_svg_path = path,
                           !.stdout = << << "Loading SVG at: " >> \o path >>]]
    /\ UNCHANGED << svg_folder, redirect_to, hb, files, rw >>

\* a missing file answered with 404
ReadFile404(r) ==
    /\ req[r].pc = "read"
    /\ LET res == read_to_string(files, req[r].full_svg_path) IN
       req' = [req EXCEPT ![r] =
                 IF res.ok
                 THEN [@ EXCEPT !.pc = "rewrite", !.content = res.val,
                                !.ops = Append(@, "read")]
                 ELSE [@ EXCEPT !.pc = "done", !.stderr = Append(@, res.val),
                                !.ops = @ \o << "read", "respond" >>,
                                !.resp = [InternalServerError(FAILED_TO_LOAD)
                                            EXCEPT !.status = 404]]]
    /\ UNCHANGED << svg_folder, redirect_to, hb, files, rw >>

\* the text read goes to one buffer that all requests share
ReadFileShared(r) ==
    /\ req[r].pc = "read"
    /\ LET res == read_to_string(files, req[r].full_svg_path) IN
       req' = [q \in Reqs |->
                 IF q # r
                 THEN IF res.ok THEN [req[q] EXCEPT !.content = res.val] ELSE req[q]
                 ELSE IF res.ok
                 THEN [req[q] EXCEPT !.pc = "rewrite", !.content = res.val,
                                     !.ops = Append(@, "read")]
                 ELSE [req[q] EXCEPT !.pc = "done", !.stderr = Append(@, res.val),
                                     !.ops = @ \o << "read", "respond" >>,
                                     !.resp = InternalServerError(FAILED_TO_LOAD)]]
    /\ UNCHANGED << svg_folder, redirect_to, hb, files, rw >>

\* a failed read is tried once more
ReadFileRetry(r) ==
    /\ req[r].pc = "read"
    /\ LET res == read_to_string(files, req[r].full_svg_path) IN
       req' = [req EXCEPT ![r] =
                 IF res.ok
                 THEN [@ EXCEPT !.pc = "rewrite", !.content = res.val,
                                !.ops = Append(@, "read")]
                 ELSE IF Len(@.ops) = 0
                 THEN [@ EXCEPT !.ops = Append(@, "read")]
                 ELSE [@ EXCEPT !.pc = "done", !.stderr = Append(@, res.val),
                                !.ops = @ \o << "read", "respond" >>,
                                !.resp = InternalServerError(FAILED_TO_LOAD)]]
    /\ UNCHANGED << svg_folder, redirect_to, hb, files, rw >>

\* lines 86 and 94-97
ReadFile(r) ==
    /\ req[r].pc = "read"
    /\ LET res == read_to_string(files, req[r].full_svg_path) IN
       req' = [req EXCEPT ![r] =
                 IF res.ok
                 THEN [@ EXCEPT !.pc = "rewrite", !.content = res.val,
                                !.ops = Append(@, "read")]
                 ELSE [@ EXCEPT !.pc = "done", !.stderr = Append(@, res.val),
                                !.ops = @ \o << "read", "respond" >>,
                                !.resp = InternalServerError(FAILED_TO_LOAD)]]
    /\ UNCHANGED << svg_folder, redirect_to, hb, files, rw >>

\* lines 87-93
Rewrite(r) ==
    /\ req[r].pc = "rewrite"
    /\ LET res == svg_size_full_width(req[r].content) IN
       req' = [req EXCEPT ![r] =
                 IF res.ok
                 THEN [@ EXCEPT !.pc = "render", !.svg_content = res.val,
                                !.ops = Append(@, "rewrite")]
                 ELSE [@ EXCEPT !.pc = "done", !.stderr = Append(@, res.val),
                                !.ops = @ \o << "rewrite", "respond" >>,
                                !.resp = InternalServerError(res.val)]]
    /\ UNCHANGED << svg_folder, redirect_to, hb, files, rw >>

\* lines 101-115
Render(r) ==
    /\ req[r].pc = "render"
    /\ LET res == hb_render(hb, LAYOUT, req[r].page, req[r].svg_content) IN
       req' = [req EXCEPT ![r] =
                 IF res.ok
                 THEN [@ EXCEPT !.pc = "done", !.ops = @ \o << "render", "respond" >>,
                                !.resp = HttpOk(res.val)]
                 ELSE [@ EXCEPT !.pc = "done", !.stderr = Append(@, res.val),
                                !.ops = @ \o << "render", "respond" >>,
                                !.resp = InternalServerError(TEMPLATE_ERROR)]]
    /\ UNCHANGED << svg_folder, redirect_to, hb, files, rw >>

Next ==
    \/ \E r \in Reqs : HomeRedirect(r)
    \/ \E r \in Reqs, segment \in Segments : Begin(r, segment)
    \/ \E r \in Reqs : ReadFile(r)
    \/ \E r \in Reqs : Rewrite(r)
    \/ \E r \in Reqs : Render(r)

Spec == Init /\ [][Next]_vars

(***************************************************************************)
(* svg_size_full_width on generated documents: once, then on its own       *)
(* output                                                                  *)
(***************************************************************************)
InitRW ==
    /\ svg_folder = FOLDER
    /\ redirect_to = HOME
    /\ hb = {LAYOUT}
    /\ files = Files
    /\ req = [r \in Reqs |-> IDLE]
    /\ \E ps \in PieceLists, shape \in Shapes :
         rw = [pc |-> "input", pieces |-> ps, shape |-> shape,
               doc |-> DocOf(ps, shape), out1 |-> Err(<< >>), out2 |-> Err(<< >>)]

RwApply ==
    /\ rw.pc = "input"
    /\ rw' = [rw EXCEPT !.pc = "once", !.out1 = svg_size_full_width(rw.doc)]
    /\ UNCHANGED << svg_folder, redirect_to, hb, files, req >>

RwApplyAgain ==
    /\ rw.pc = "once"
    /\ rw.out1.ok
    /\ rw' = [rw EXCEPT !.pc = "twice", !.out2 = svg_size_full_width(rw.out1.val)]
    /\ UNCHANGED << svg_folder, redirect_to, hb, files, req >>

NextRW == RwApply \/ RwApplyAgain

SpecRW == InitRW /\ [][NextRW]_vars

(***************************************************************************)
(* render_svg run from beginning to end with nothing else running          *)
(***************************************************************************)
RenderSvgAlone(segment) ==
    LET page == PageName(segment)
        rd == read_to_string(files, FullSvgPath(svg_folder, page)) IN
    IF ~rd.ok THEN InternalServerError(FAILED_TO_LOAD)
    ELSE LET sz == svg_size_full_width(rd.val) IN
         IF ~sz.ok THEN InternalServerError(sz.val)
         ELSE LET rn == hb_render(hb, LAYOUT, page, sz.val) IN
              IF rn.ok THEN HttpOk(rn.val)
              ELSE InternalServerError(TEMPLATE_ERROR)

PageDone(r) == req[r].pc = "done" /\ req[r].route = "page"

(***************************************************************************)
(* Properties of the request handlers (specification Spec)                 *)
(***************************************************************************)

\* C1: a finished GET /{page} request has status 200 exactly when the file
\* read, the root-tag rewrite and the render of "layout" all succeeded, and
\* status 500 otherwise; no other status (404 for a missing file included)
\* is produced.
C1_Status200IffAllStagesSucceed ==
    \A r \in Reqs : PageDone(r) =>
        LET rd == read_to_string(files, req[r].full_svg_path)
            allOk == /\ rd.ok
                     /\ svg_size_full_width(rd.val).ok
                     /\ LAYOUT \in hb IN
        /\ req[r].resp.status \in {200, 500}
        /\ (req[r].resp.status = 200) <=> allOk
        /\ (req[r].full_svg_path \notin DOMAIN files) => req[r].resp.status = 500

C1_Witness ==
    \E r, q \in Reqs :
        /\ PageDone(r) /\ req[r].resp.status = 200
        /\ PageDone(q) /\ req[q].resp.status = 500
        /\ req[q].full_svg_path \notin DOMAIN files

\* C2: the body of every 500 response of GET /{page} is an opaque message:
\* it contains neither the path of the file nor any error text the failing
\* stage produced (the text written to the operator log).
C2_BodyLeaksNothing ==
    \A r \in Reqs : (PageDone(r) /\ req[r].resp.status = 500) =>
        /\ ~Contains(req[r].resp.body, req[r].full_svg_path)
        /\ \A n \in 1..Len(req[r].stderr) :
               ~Contains(req[r].resp.body, req[r].stderr[n])

\* C7: the page name is the segment lowercased with every ':' turned into
\* '/', it holds no ':', the file read is <svg folder>/<page name>.svg, and
\* the same page name is the title of the rendered page.
C7_PageNameAndPath ==
    \A r \in Reqs : req[r].route = "page" =>
        /\ Len(req[r].page) = Len(req[r].segment)
        /\ \A n \in 1..Len(req[r].segment) :
               req[r].page[n] = CASE req[r].segment[n] = ":" -> "/"
                                  [] req[r].segment[n] = "A" -> "a"
                                  [] OTHER -> req[r].segment[n]
        /\ \A n \in 1..Len(req[r].page) : req[r].page[n] # ":"
        /\ req[r].full_svg_path = svg_folder \o << "/" >> \o req[r].page \o DOT_SVG
        /\ req[r].resp.status = 200 =>
               req[r].resp.body = << "<html><title>" >> \o req[r].page
                                  \o << "</title><body>" >> \o req[r].svg_content
                                  \o << "</body></html>" >>

C9_SharedStateReadOnly ==
    /\ [][/\ svg_folder' = svg_folder
          /\ redirect_to' = redirect_to
          /\ hb' = hb]_vars
    /\ [](\A r \in Reqs :
            /\ PageDone(r) => req[r].resp = RenderSvgAlone(req[r].segment)
            /\ (req[r].pc = "done" /\ req[r].route = "root") =>
                   req[r].resp = TemporaryRedirect(redirect_to))

C9_Witness ==
    \E r, q \in Reqs :
        /\ PageDone(r) /\ req[r].resp.status = 200
        /\ req[q].pc = "render"
        /\ req[q].content # req[r].content
        /\ req[r].resp = RenderSvgAlone(req[r].segment)

\* C10: a GET /{page} request does at most one file read, then at most one
\* rewrite and only after the read succeeded, then at most one render and
\* only after the rewrite succeeded, and ends with exactly one response; no
\* stage runs after a failed one.
C10_EachStageOnceInOrder ==
    \A r \in Reqs : req[r].route = "page" =>
        LET ops == req[r].ops
            rd == read_to_string(files, req[r].full_svg_path) IN
        /\ ops \in { << >>, << "read" >>, << "read", "rewrite" >>,
                     << "read", "respond" >>,
                     << "read", "rewrite", "respond" >>,
                     << "read", "rewrite", "render", "respond" >> }
        /\ (req[r].pc = "done") <=> (ops # << >> /\ ops[Len(ops)] = "respond")
        /\ (req[r].pc # "done") => req[r].resp = NO_RESPONSE
        /\ (Len(ops) >= 2 /\ ops[2] = "rewrite") => rd.ok
        /\ (Len(ops) >= 2 /\ ops[2] = "respond") => ~rd.ok
        /\ (Len(ops) >= 3 /\ ops[3] = "render") => svg_size_full_width(rd.val).ok
        /\ (Len(ops) >= 3 /\ ops[3] = "respond") => ~svg_size_full_width(rd.val).ok

C10_Witness ==
    \E r, q \in Reqs :
        /\ PageDone(r) /\ req[r].ops = << "read", "rewrite", "respond" >>
        /\ PageDone(q) /\ req[q].ops = << "read", "respond" >>

(***************************************************************************)
(* Properties of svg_size_full_width (specification SpecRW)                *)
(***************************************************************************)
Applied == rw.pc \in {"once", "twice"}

\* the generated document is a root tag of whitespace-separated
\* name="value" attributes closed by '>'
WellFormedInput ==
    /\ Applied
    /\ rw.shape \in {"plain", "prolog", "nested"}
    /\ \A n \in 1..Len(rw.pieces) : rw.pieces[n] \in WellFormedPieces

\* C3 as stated: whenever svg_size_full_width(d) succeeds with r, applying
\* it to r succeeds and returns exactly r.
C3_Idempotent ==
    rw.pc = "twice" => (rw.out2.ok /\ rw.out2.val = rw.out1.val)

\* C3: whenever svg_size_full_width(d) succeeds with r and the root tag span
\* of r holds no text matching height\s*=\s*"[^"]*", applying it to r
\* succeeds and returns exactly r.
C3_IdempotentWhenNoHeightLeft ==
    (rw.pc = "twice" /\ ~ReIsMatch(SvgTagLine(rw.out1.val), HEIGHT)) =>
        (rw.out2.ok /\ rw.out2.val = rw.out1.val)

C3_Witness ==
    /\ rw.pc = "twice"
    /\ ReIsMatch(SvgTagLine(rw.doc), HEIGHT)
    /\ ReIsMatch(SvgTagLine(rw.doc), WIDTH)
    /\ ~ReIsMatch(SvgTagLine(rw.out1.val), HEIGHT)
    /\ rw.out1.val # rw.doc
    /\ rw.out2.val = rw.out1.val

\* C4: for a well-formed document whose root tag carries a height and a
\* width attribute, the root tag of the output has no height attribute and
\* has width="100%" where the width attribute was.
C4_HeightGoneWidthFull ==
    (WellFormedInput /\ HasAttr(rw.doc, HEIGHT) /\ HasAttr(rw.doc, WIDTH)) =>
        /\ rw.out1.ok
        /\ ~HasAttr(rw.out1.val, HEIGHT)
        /\ AttrValues(rw.out1.val, WIDTH) = { << "1", "0", "0", "%" >> }
        /\ AttrCount(rw.out1.val, WIDTH) = AttrCount(rw.doc, WIDTH)

\* C5: the output is the input with the first occurrence of the tag span
\* replaced by the rewritten span; every character outside that occurrence
\* is the same in input and output.
C5_OnlyFirstOccurrenceChanged ==
    (Applied /\ rw.out1.ok) =>
        rw.out1.val = StrReplaceFirst(rw.doc, SvgTagLine(rw.doc),
                                      NewSvgTagLine(SvgTagLine(rw.doc)))

\* C6 as stated: for every document whose root tag has no width attribute,
\* the root tag of the output has no width attribute.
C6_NoWidthSynthesis ==
    (Applied /\ rw.out1.ok /\ ~HasAttr(rw.doc, WIDTH)) =>
        ~HasAttr(rw.out1.val, WIDTH)

\* C6: for every document whose root tag is a list of whitespace-separated
\* name="value" attributes closed by '>' and has no width attribute, the
\* root tag of the output has no width attribute.
C6_NoWidthSynthesisWellFormed ==
    (WellFormedInput /\ ~HasAttr(rw.doc, WIDTH)) =>
        (rw.out1.ok /\ ~HasAttr(rw.out1.val, WIDTH))

C6_Witness ==
    /\ WellFormedInput
    /\ HasAttr(rw.doc, HEIGHT)
    /\ ~HasAttr(rw.doc, WIDTH)
    /\ rw.out1.ok
    /\ rw.out1.val # rw.doc
    /\ ~HasAttr(rw.out1.val, HEIGHT)

====
